---- MODULE Spec2Model ----
(***************************************************************************)
(* A state-machine model of gpx_analysis: the tile cache (get_img), the     *)
(* tile space and coordinate mapper of MapClass (graph_handler.py) and the *)
(* track sampler (sporting.py).                                            *)
(*                                                                         *)
(* Degrees are modelled on an integer grid: a tile is TileSpan grid units  *)
(* wide and high, tile row 0 starts at latitude GridTop and tile column 0  *)
(* at longitude 0, so deg2num is a truncating division (flipped for the    *)
(* latitude, as the Mercator row index grows southward) and num2deg gives  *)
(* the north-west corner of a tile.  Python's None is the empty tuple <<>>,*)
(* a raised exception is the name of its class in the field `error`        *)
(* ("" when the call returned).  Floats are exact rationals.               *)
(***************************************************************************)
EXTENDS Integers, Sequences, FiniteSets, TLC

VARIABLES
    self,       \* the MapClass instance: its fields
    canvas,     \* the pyplot axes: the primitives currently drawn
    disk,       \* the image_cache directory: file name -> image it holds
    requests,   \* what the last operation asked the tile server: <<tile, response>>
    op,         \* the operation called last
    arg,        \* its argument
    ret,        \* what it returned (<<>> when it raised or returns None)
    error,      \* the exception it raised ("" when it returned)
    track,      \* the track handed to the sampler functions
    searched    \* whether the last sampler call ran the bracket search

vars == <<self, canvas, disk, requests, op, arg, ret, error, track, searched>>

----------------------------------------------------------------------------
(* Bounds of the model and constants of the program *)

\* grid units per tile edge: the model's 360 / 2^zoom degrees
TileSpan == 2
\* latitude (grid units) of the northern edge of tile row 0
GridTop == 12
\* MapClass.tile_size
tile_size == 50
\* the zoom level get_all_images_in_bounds and __set_tile_bounds pass
Zoom == 17
\* the most tiles one direct __add_images call supplies
MaxNew == 2
\* the most artists ever created on the figure by the map operations
MaxArtists == 2
\* the server fails at most one request of an add_athlete call, that of one
\* of the first MaxFailAt tiles of the loop
MaxFailAt == 2
\* the most artists ever created on the figure while athletes are added,
\* changed and removed
MaxDrawn == 3
\* the most points of a track handed to the sampler
MaxPoints == 2
\* the largest relative_time of a point of such a track
MaxTime == 2

None == <<>>

Min(S) == CHOOSE m \in S : \A n \in S : m <= n
Max(S) == CHOOSE m \in S : \A n \in S : m >= n

\* Python's int(): truncation toward zero of a / b, b > 0
Trunc(a, b) == IF a >= 0 THEN a \div b ELSE -((-a) \div b)

\* the empty dict
EmptyDict == [k \in {} |-> None]

----------------------------------------------------------------------------
(* graph_handler.py: deg2num, num2deg *)

\* (xtile, ytile) of a position
deg2num(lat_deg, lon_deg) ==
    <<Trunc(lon_deg, TileSpan), Trunc(GridTop - lat_deg, TileSpan)>>

\* (lat_deg, lon_deg) of the north-west corner of a tile
num2deg(xtile, ytile) ==
    <<GridTop - ytile * TileSpan, xtile * TileSpan>>

----------------------------------------------------------------------------
(* MapClass: the tile space *)

\* MapClass.__init__
NewMapClass ==
    [ image_dict     |-> EmptyDict,
      raw_image_dict |-> EmptyDict,
      gpx_bounds_deg |-> None,
      tile_bounds_plt |-> None,
      tile_bounds_deg |-> None,
      athletes       |-> EmptyDict ]

\* (north, east, south, west) tile indices of a non-empty set of keys
tile_ind_bounds(tile_indexes) ==
    << Min({i[2] : i \in tile_indexes}),
       Max({i[1] : i \in tile_indexes}),
       Max({i[2] : i \in tile_indexes}),
       Min({i[1] : i \in tile_indexes}) >>

\* a recompute that accepts an empty tile set instead of raising
set_tile_bounds_NoCheck(m) ==
    IF DOMAIN m.raw_image_dict = {}
    THEN [m |-> [m EXCEPT !.tile_bounds_plt = <<0, 0, 0, 0>>,
                          !.tile_bounds_deg = <<0, 0, 0, 0>>],
          error |-> ""]
    ELSE LET b == tile_ind_bounds(DOMAIN m.raw_image_dict)
             bottom_left == num2deg(b[4], b[3] + 1)
             top_right == num2deg(b[2] + 1, b[1])
         IN  [m |-> [m EXCEPT
                  !.tile_bounds_plt = <<(b[3] - b[1] + 1) * tile_size,
                                        (b[2] - b[4] + 1) * tile_size, 0, 0>>,
                  !.tile_bounds_deg = <<top_right[1], top_right[2],
                                        bottom_left[1], bottom_left[2]>>],
              error |-> ""]

\* a recompute whose plot bounds leave out the "+ 1" of the inclusive range
set_tile_bounds_OffByOne(m) ==
    IF DOMAIN m.raw_image_dict = {}
    THEN [m |-> m, error |-> "ValueError"]
    ELSE LET b == tile_ind_bounds(DOMAIN m.raw_image_dict)
             bottom_left == num2deg(b[4], b[3] + 1)
             top_right == num2deg(b[2] + 1, b[1])
         IN  [m |-> [m EXCEPT
                  !.tile_bounds_plt = <<(b[3] - b[1]) * tile_size,
                                        (b[2] - b[4]) * tile_size, 0, 0>>,
                  !.tile_bounds_deg = <<top_right[1], top_right[2],
                                        bottom_left[1], bottom_left[2]>>],
              error |-> ""]

\* MapClass.__set_tile_bounds: the new instance and the exception raised
set_tile_bounds(m) ==
    IF DOMAIN m.raw_image_dict = {}
    THEN [m |-> m, error |-> "ValueError"]
    ELSE LET b == tile_ind_bounds(DOMAIN m.raw_image_dict)
             bottom_left == num2deg(b[4], b[3] + 1)
             top_right == num2deg(b[2] + 1, b[1])
         IN  [m |-> [m EXCEPT
                  !.tile_bounds_plt = <<(b[3] - b[1] + 1) * tile_size,
                                        (b[2] - b[4] + 1) * tile_size, 0, 0>>,
                  !.tile_bounds_deg = <<top_right[1], top_right[2],
                                        bottom_left[1], bottom_left[2]>>],
              error |-> ""]

\* a reindexing that measures y from the northern row (no flip)
new_dict_NoFlip(raw) ==
    LET b == tile_ind_bounds(DOMAIN raw)
        new_key(old_key) == <<old_key[1] - b[4], old_key[2] - b[1]>>
    IN  [k \in {new_key(old) : old \in DOMAIN raw} |->
            raw[CHOOSE old \in DOMAIN raw : new_key(old) = k]]

\* the dict __reindex_tiles builds from a non-empty raw dict
new_dict(raw) ==
    LET b == tile_ind_bounds(DOMAIN raw)
        new_key(old_key) == <<old_key[1] - b[4], b[3] - old_key[2]>>
    IN  [k \in {new_key(old) : old \in DOMAIN raw} |->
            raw[CHOOSE old \in DOMAIN raw : new_key(old) = k]]

\* MapClass.__reindex_tiles
reindex_tiles(m) ==
    LET r == set_tile_bounds(m)
    IN  IF r.error # ""
        THEN r
        ELSE [m |-> [r.m EXCEPT !.image_dict = new_dict(r.m.raw_image_dict)],
              error |-> ""]

\* a merge in which the supplied image replaces the stored one
merge_Overwrite(raw, _image_dict) ==
    [k \in DOMAIN raw \cup DOMAIN _image_dict |->
        IF k \in DOMAIN _image_dict THEN _image_dict[k] ELSE raw[k]]

\* the loop of __add_images: only the keys not yet present are added
merge(raw, _image_dict) ==
    [k \in DOMAIN raw \cup DOMAIN _image_dict |->
        IF k \in DOMAIN raw THEN raw[k] ELSE _image_dict[k]]

\* MapClass.__add_images
add_images(m, _image_dict) ==
    reindex_tiles([m EXCEPT
        !.raw_image_dict = merge(m.raw_image_dict, _image_dict)])

----------------------------------------------------------------------------
(* graph_handler.py: the tile cache *)

\* the acceptable file types, in the order get_img tries them
endings == <<"jpg", "jpeg", "png">>

\* the cache file name f'image_cache/{zoom}-{y_coord}-{x_coord}.{f_type}'
cache_name(zoom, y_coord, x_coord, f_type) == <<zoom, y_coord, x_coord, f_type>>

\* the image the tile server sends, once decoded
ServerImage == "net"

\* the image a file written by img.save(path) holds: the JPEG encoding
SavedAsJpg(img) == "jpg(" \o img \o ")"

\* what the request of an uncached tile may end in: the decoded image, a
\* failed urlopen, or bytes PIL cannot decode
FetchErrors == {"URLError", "UnidentifiedImageError"}
Responses == {"ok"} \cup FetchErrors

\* the cache loop of get_img after its first i endings: img is None (<<>>)
\* or the image opened last
RECURSIVE cache_lookup(_, _, _, _, _)
cache_lookup(dsk, x_coord, y_coord, zoom, i) ==
    IF i = 0
    THEN None
    ELSE LET name == cache_name(zoom, y_coord, x_coord, endings[i])
         IN  IF name \in DOMAIN dsk
             THEN <<dsk[name]>>
             ELSE cache_lookup(dsk, x_coord, y_coord, zoom, i - 1)

\* a get_img that downloads without saving the tile into the cache folder
get_img_NoSave(x_coord, y_coord, zoom, dsk, response) ==
    LET img == cache_lookup(dsk, x_coord, y_coord, zoom, Len(endings))
    IN  IF img # None
        THEN [img |-> img, disk |-> dsk, requested |-> FALSE, error |-> ""]
        ELSE IF response \in FetchErrors
        THEN [img |-> None, disk |-> dsk, requested |-> TRUE, error |-> response]
        ELSE [img |-> <<ServerImage>>, disk |-> dsk,
              requested |-> TRUE, error |-> ""]

\* a get_img that answers a failed download with a placeholder image
get_img_Placeholder(x_coord, y_coord, zoom, dsk, response) ==
    LET img == cache_lookup(dsk, x_coord, y_coord, zoom, Len(endings))
        path == cache_name(zoom, y_coord, x_coord, "jpg")
    IN  IF img # None
        THEN [img |-> img, disk |-> dsk, requested |-> FALSE, error |-> ""]
        ELSE IF response \in FetchErrors
        THEN [img |-> <<"blank">>, disk |-> dsk, requested |-> TRUE, error |-> ""]
        ELSE [img |-> <<ServerImage>>,
              disk |-> (path :> SavedAsJpg(ServerImage)) @@ dsk,
              requested |-> TRUE, error |-> ""]

\* get_img: the image returned, the cache folder afterwards, whether the
\* server was asked, and the exception raised
get_img(x_coord, y_coord, zoom, dsk, response) ==
    LET img == cache_lookup(dsk, x_coord, y_coord, zoom, Len(endings))
        path == cache_name(zoom, y_coord, x_coord, "jpg")
    IN  IF img # None
        THEN [img |-> img, disk |-> dsk, requested |-> FALSE, error |-> ""]
        ELSE IF response \in FetchErrors
        THEN [img |-> None, disk |-> dsk, requested |-> TRUE, error |-> response]
        ELSE [img |-> <<ServerImage>>,
              disk |-> (path :> SavedAsJpg(ServerImage)) @@ dsk,
              requested |-> TRUE, error |-> ""]

\* the tile keys get_all_images_in_bounds visits, in the order of its loops
tiles_in_bounds(bounds) ==
    LET bottom_left_tile_num == deg2num(bounds[4], bounds[3])
        top_right_tile_num == deg2num(bounds[2], bounds[1])
        x_lo == bottom_left_tile_num[1] - 1
        x_hi == top_right_tile_num[1]
        y_lo == top_right_tile_num[2] - 1
        y_hi == bottom_left_tile_num[2]
        nx == IF x_hi >= x_lo THEN x_hi - x_lo + 1 ELSE 0
        ny == IF y_hi >= y_lo THEN y_hi - y_lo + 1 ELSE 0
    IN  [i \in 1..(nx * ny) |-> <<x_lo + ((i - 1) \div ny), y_lo + ((i - 1) % ny)>>]

\* the loops of get_all_images_in_bounds from tile i on; responses[i] is
\* what the server answers if tile i is asked for
\* (a value is bound by "\in {e}" where it is used more than once, so that
\* it is computed once)
RECURSIVE fetch_loop(_, _, _, _)
\* one pass of the loop body: get_img for tile i, then the rest of the loop
fetch_step(keys, i, s, responses) ==
    CHOOSE out \in
        { IF r.error # ""
          THEN [tiles |-> s.tiles, disk |-> r.disk,
                requests |-> IF r.requested THEN Append(s.requests, <<keys[i], responses[i]>>)
                             ELSE s.requests,
                error |-> r.error]
          ELSE fetch_loop(keys, i + 1,
                   [tiles |-> (keys[i] :> r.img[1]) @@ s.tiles,
                    disk |-> r.disk,
                    requests |-> IF r.requested THEN Append(s.requests, <<keys[i], responses[i]>>)
                                 ELSE s.requests,
                    error |-> ""],
                   responses) :
          r \in {get_img(keys[i][1], keys[i][2], Zoom, s.disk, responses[i])} } : TRUE

fetch_loop(keys, i, st, responses) ==
    IF i > Len(keys)
    THEN st
    ELSE CHOOSE out \in {fetch_step(keys, i, s, responses) : s \in {st}} : TRUE

\* get_all_images_in_bounds: the tile dictionary, the cache folder
\* afterwards, the server requests made and the exception raised
get_all_images_in_bounds(bounds, dsk, responses) ==
    fetch_loop(tiles_in_bounds(bounds), 1,
               [tiles |-> EmptyDict, disk |-> dsk, requests |-> <<>>, error |-> ""],
               responses)

----------------------------------------------------------------------------
(* Exact rationals for Python's floats *)

RECURSIVE Gcd(_, _)
Gcd(a, b) == IF b = 0 THEN a ELSE Gcd(b, a % b)

Abs(a) == IF a < 0 THEN -a ELSE a

\* n / d in lowest terms, d # 0
Rat(n, d) ==
    LET g == Gcd(Abs(n), Abs(d))
        s == IF d < 0 THEN -1 ELSE 1
    IN  [n |-> s * (n \div g), d |-> s * (d \div g)]

----------------------------------------------------------------------------
(* components.py: tracks and bounds *)

\* a TrackPoint
TrackPoint(lat, lon, relative_time, cadence) ==
    [position_degrees |-> <<lat, lon>>, relative_time |-> relative_time,
     cadence |-> cadence]

\* geo.get_track_bounds: (north, east, south, west) of a track's points
get_track_bounds(trk) ==
    LET lats == {trk[i].position_degrees[1] : i \in 1..Len(trk)}
        lons == {trk[i].position_degrees[2] : i \in 1..Len(trk)}
    IN  <<Max(lats), Max(lons), Min(lats), Min(lons)>>

\* geo.union_bounds: the smallest rectangle containing both
union_bounds(a, b) ==
    << IF a[1] >= b[1] THEN a[1] ELSE b[1],
       IF a[2] >= b[2] THEN a[2] ELSE b[2],
       IF a[3] <= b[3] THEN a[3] ELSE b[3],
       IF a[4] <= b[4] THEN a[4] ELSE b[4] >>

----------------------------------------------------------------------------
(* MapClass: the coordinate mapper and the overlays *)

\* a dictionary key that is not there
Absent == <<"absent">>

\* the pyplot figure at the start: no artist, no tile image, no legend;
\* `created` counts the artists made so far, an artist's handle is its number
NewFigure ==
    [artists |-> {}, images |-> {}, legend |-> {}, created |-> 0]

\* a __set_gpx_bounds that keeps the bounds of the last track only
set_gpx_bounds_Overwrite(m, _gpx_bounds) ==
    [m EXCEPT !.gpx_bounds_deg = _gpx_bounds]

\* MapClass.__set_gpx_bounds
set_gpx_bounds(m, _gpx_bounds) ==
    IF m.gpx_bounds_deg = None
    THEN [m EXCEPT !.gpx_bounds_deg = _gpx_bounds]
    ELSE [m EXCEPT !.gpx_bounds_deg = union_bounds(_gpx_bounds, m.gpx_bounds_deg)]

\* a conversion that answers (0, 0) while the tile bounds are not set
degrees_to_graph_Default(m, degrees) ==
    IF m.gpx_bounds_deg = None
    THEN [ret |-> None, error |-> "ValueError"]
    ELSE IF m.tile_bounds_deg = None
    THEN [ret |-> <<Rat(0, 1), Rat(0, 1)>>, error |-> ""]
    ELSE LET y_coord == Rat((degrees[1] - m.tile_bounds_deg[3]) * m.tile_bounds_plt[1],
                            m.tile_bounds_deg[1] - m.tile_bounds_deg[3])
             x_coord == Rat((degrees[2] - m.tile_bounds_deg[4]) * m.tile_bounds_plt[2],
                            m.tile_bounds_deg[2] - m.tile_bounds_deg[4])
         IN  [ret |-> <<x_coord, y_coord>>, error |-> ""]

\* MapClass.degrees_to_graph: (x_coord, y_coord), or the exception raised
degrees_to_graph(m, degrees) ==
    IF m.gpx_bounds_deg = None
    THEN [ret |-> None, error |-> "ValueError"]
    ELSE IF m.tile_bounds_deg = None
    THEN [ret |-> None, error |-> "ValueError"]
    ELSE LET y_coord == Rat((degrees[1] - m.tile_bounds_deg[3]) * m.tile_bounds_plt[1],
                            m.tile_bounds_deg[1] - m.tile_bounds_deg[3])
             x_coord == Rat((degrees[2] - m.tile_bounds_deg[4]) * m.tile_bounds_plt[2],
                            m.tile_bounds_deg[2] - m.tile_bounds_deg[4])
         IN  [ret |-> <<x_coord, y_coord>>, error |-> ""]

\* plt.plot: the figure with one more artist, whose handle is cv.created + 1
plot(cv, kind, xy, color) ==
    [cv EXCEPT !.created = cv.created + 1,
               !.artists = cv.artists \cup
                   {[handle |-> cv.created + 1, kind |-> kind, xy |-> xy,
                     color |-> color]}]

\* artist.remove() for the artists with the given handles
remove(cv, handles) ==
    [cv EXCEPT !.artists = {a \in cv.artists : a.handle \notin handles}]

\* MapClass.draw_line: the figure, the handle returned, the exception raised
draw_line(m, cv, start, end, color) ==
    LET start_graph_pos == degrees_to_graph(m, start)
        end_graph_pos == degrees_to_graph(m, end)
    IN  IF start_graph_pos.error # ""
        THEN [cv |-> cv, ret |-> None, error |-> start_graph_pos.error]
        ELSE IF end_graph_pos.error # ""
        THEN [cv |-> cv, ret |-> None, error |-> end_graph_pos.error]
        ELSE [cv |-> plot(cv, "line", <<start_graph_pos.ret, end_graph_pos.ret>>, color),
              ret |-> <<cv.created + 1>>, error |-> ""]

\* MapClass.remove_point, for an athlete of the table
remove_point(m, cv, athlete_key) ==
    LET a == m.athletes[athlete_key]
    IN  IF a.draw_point # Absent /\ a.draw_point # None
        THEN [m |-> [m EXCEPT !.athletes[athlete_key].draw_point = None],
              cv |-> remove(cv, {a.draw_point[2]})]
        ELSE [m |-> m, cv |-> cv]

\* MapClass.draw_point
draw_point(m, cv, athlete_key, pos, color) ==
    IF athlete_key \notin DOMAIN m.athletes
    THEN [m |-> m, cv |-> cv, error |-> "KeyError"]
    ELSE LET a == m.athletes[athlete_key]
             r == IF a.draw_point # Absent /\ a.draw_point # None
                  THEN remove_point(m, cv, athlete_key)
                  ELSE [m |-> m, cv |-> cv]
             graph_pos == degrees_to_graph(r.m, pos)
         IN  IF graph_pos.error # ""
             THEN [m |-> r.m, cv |-> r.cv, error |-> graph_pos.error]
             ELSE [m |-> [r.m EXCEPT !.athletes[athlete_key].draw_point =
                                         <<"artist", r.cv.created + 1>>],
                   cv |-> plot(r.cv, "marker", <<graph_pos.ret>>, color),
                   error |-> ""]

\* MapClass.__remove_drawn_track, for an athlete of the table
remove_drawn_track(m, cv, athlete_key) ==
    LET a == m.athletes[athlete_key]
    IN  IF a.draw_track # Absent /\ a.draw_track # None
        THEN [m |-> [m EXCEPT !.athletes[athlete_key].draw_track = None],
              cv |-> remove(cv, {a.draw_track[2][i] : i \in 1..Len(a.draw_track[2])})]
        ELSE [m |-> m, cv |-> cv]

\* the loop of draw_track from segment i on: line_data grows by one handle
\* a segment; a draw_line that raises ends it
RECURSIVE draw_segments(_, _, _, _, _, _)
draw_segments(m, cv, trk, i, color, line_data) ==
    IF i > Len(trk) - 1
    THEN [cv |-> cv, line_data |-> line_data, error |-> ""]
    ELSE CHOOSE out \in
             { IF single_line.error # ""
               THEN [cv |-> single_line.cv, line_data |-> line_data,
                     error |-> single_line.error]
               ELSE draw_segments(m, single_line.cv, trk, i + 1, color,
                                  Append(line_data, single_line.ret[1])) :
               single_line \in { draw_line(m, cv, trk[i].position_degrees,
                                           trk[i + 1].position_degrees, color) } } : TRUE

\* draw_track once the old segments are removed
draw_track_lines(m, cv, athlete_key, color) ==
    CHOOSE out \in
        { IF d.error # ""
          THEN [m |-> m, cv |-> d.cv, error |-> d.error]
          ELSE [m |-> [m EXCEPT !.athletes[athlete_key].draw_track =
                                    <<"list", d.line_data>>],
                cv |-> d.cv, error |-> ""] :
          d \in { draw_segments(m, cv, m.athletes[athlete_key].track, 1,
                                color, <<>>) } } : TRUE

\* MapClass.draw_track, for an athlete of the table
draw_track(m, cv, athlete_key, color) ==
    CHOOSE out \in
        { draw_track_lines(r.m, r.cv, athlete_key, color) :
          r \in { IF /\ m.athletes[athlete_key].draw_track # Absent
                     /\ m.athletes[athlete_key].draw_track # None
                  THEN remove_drawn_track(m, cv, athlete_key)
                  ELSE [m |-> m, cv |-> cv] } } : TRUE

\* MapClass.plot_images: every local tile placed at its extent (the figure
\* keeps the extents at which an image has been placed)
plot_images(m, cv) ==
    [cv EXCEPT !.images = cv.images \cup
        {<<k[1] * tile_size, (k[1] + 1) * tile_size,
           k[2] * tile_size, (k[2] + 1) * tile_size>> : k \in DOMAIN m.image_dict}]

\* MapClass.__draw_legend: one patch an athlete of the table
draw_legend(m, cv) ==
    [cv EXCEPT !.legend =
        {<<m.athletes[k].colour, m.athletes[k].display_name>> : k \in DOMAIN m.athletes}]

\* the dict the caller hands to add_athlete
AthleteValue(trk, colour, display_name) ==
    [track |-> trk, colour |-> colour, display_name |-> display_name,
     draw_track |-> Absent, draw_point |-> Absent]

\* add_athlete from plot_images on: the tiles are registered in m
add_athlete_draw(m, cv, got, athlete_key, athlete_value) ==
    CHOOSE out \in
        { IF drawn.error # ""
          THEN [m |-> drawn.m, cv |-> drawn.cv, disk |-> got.disk,
                requests |-> got.requests, error |-> drawn.error]
          ELSE [m |-> drawn.m, cv |-> draw_legend(drawn.m, drawn.cv),
                disk |-> got.disk, requests |-> got.requests, error |-> ""] :
          drawn \in { draw_track(m, plot_images(m, cv), athlete_key,
                                 athlete_value.colour) } } : TRUE

\* add_athlete from __add_images on: got is what the tile loop returned
add_athlete_add(m, cv, got, athlete_key, athlete_value) ==
    CHOOSE out \in
        { IF added.error # ""
          THEN [m |-> added.m, cv |-> cv, disk |-> got.disk,
                requests |-> got.requests, error |-> added.error]
          ELSE add_athlete_draw(added.m, cv, got, athlete_key, athlete_value) :
          added \in {add_images(m, got.tiles)} } : TRUE

\* add_athlete from get_all_images_in_bounds on: the athlete is in the
\* table of m and its bounds are in gpx_bounds_deg
add_athlete_images(m, cv, dsk, athlete_key, athlete_value, responses) ==
    CHOOSE out \in
        { IF got.error # ""
          THEN [m |-> m, cv |-> cv, disk |-> got.disk,
                requests |-> got.requests, error |-> got.error]
          ELSE add_athlete_add(m, cv, got, athlete_key, athlete_value) :
          got \in {get_all_images_in_bounds(m.gpx_bounds_deg, dsk, responses)} } : TRUE

\* MapClass.add_athlete: the instance, the figure, the cache folder and the
\* server requests afterwards, and the exception raised
add_athlete(m, cv, dsk, athlete_key, athlete_value, responses) ==
    CHOOSE out \in
        { add_athlete_images(m2, cv, dsk, athlete_key, athlete_value, responses) :
          m2 \in { set_gpx_bounds(
                       [m EXCEPT !.athletes =
                            (athlete_key :> athlete_value) @@ m.athletes],
                       get_track_bounds(athlete_value.track)) } } : TRUE

\* MapClass.modify_athlete: the colour and the name are replaced, the track
\* is drawn again and the legend rebuilt
modify_athlete(m, cv, athlete_key, new_value) ==
    IF athlete_key \notin DOMAIN m.athletes
    THEN [m |-> m, cv |-> cv, error |-> "KeyError"]
    ELSE CHOOSE out \in
             { IF drawn.error # ""
               THEN drawn
               ELSE [m |-> drawn.m, cv |-> draw_legend(drawn.m, drawn.cv),
                     error |-> ""] :
               drawn \in { draw_track(
                               [m EXCEPT
                                   !.athletes[athlete_key].colour = new_value.colour,
                                   !.athletes[athlete_key].display_name =
                                       new_value.display_name],
                               cv, athlete_key, new_value.colour) } } : TRUE

\* a del that empties the dict
del_All(dict, key) == [k \in {} |-> dict[k]]

\* the dict without one of its keys
del(dict, key) == [k \in DOMAIN dict \ {key} |-> dict[k]]

\* MapClass.remove_athlete: the marker and the segments of the athlete are
\* removed from the figure, then its entry from the table
remove_athlete(m, cv, athlete_key) ==
    IF athlete_key \notin DOMAIN m.athletes
    THEN [m |-> m, cv |-> cv, error |-> "KeyError"]
    ELSE CHOOSE out \in
             { [m |-> [lines.m EXCEPT !.athletes = del(lines.m.athletes, athlete_key)],
                cv |-> draw_legend(
                           [lines.m EXCEPT
                               !.athletes = del(lines.m.athletes, athlete_key)],
                           lines.cv),
                error |-> ""] :
               lines \in
                 { IF point.m.athletes[athlete_key].draw_track # Absent
                   THEN remove_drawn_track(point.m, point.cv, athlete_key)
                   ELSE point :
                   point \in
                     { IF m.athletes[athlete_key].draw_point # Absent
                       THEN remove_point(m, cv, athlete_key)
                       ELSE [m |-> m, cv |-> cv] } } } : TRUE

----------------------------------------------------------------------------
(* sporting.py: the track sampler *)

\* a Python number: its type and its value, a fraction in lowest terms
PyInt(i) == [type |-> "int", n |-> i, d |-> 1]
PyFloat(n, d) == [type |-> "float", n |-> Rat(n, d).n, d |-> Rat(n, d).d]

\* TrackPoint.get_position_degrees: the (lat, lon) floats of a point
get_position_degrees(point) ==
    <<PyFloat(point.position_degrees[1], 1), PyFloat(point.position_degrees[2], 1)>>

\* geo.geo_distance: the metric of the grid (symmetric, zero only between
\* equal positions, obeying the triangle inequality), a float
geo_distance(lat1, lon1, lat2, lon2) ==
    PyFloat(Abs(lat1 - lat2) + Abs(lon1 - lon2), 1)

\* map_ranges of a time between two times (numbers of the grid) onto the
\* range of two Python numbers: the float, or the exception raised
map_ranges(value, in_min, in_max, out_min, out_max) ==
    IF in_max - in_min = 0
    THEN [ret |-> None, error |-> "ZeroDivisionError"]
    ELSE [ret |-> <<PyFloat((value - in_min)
                                * (out_max.n * out_min.d - out_min.n * out_max.d)
                                + out_min.n * out_max.d * (in_max - in_min),
                            (in_max - in_min) * out_max.d * out_min.d)>>,
          error |-> ""]

\* round(x, 1) of a float: the nearest tenth, a tie going to the even one
round_1(x) ==
    LET scaled == x.n * 10
        q == scaled \div x.d
        rem == scaled - q * x.d
        up == \/ 2 * rem > x.d
              \/ 2 * rem = x.d /\ q % 2 = 1
    IN  PyFloat(IF up THEN q + 1 ELSE q, 10)

\* a bracket search that stops at the first point at or after the time
get_surrounding_points_at_time_AtOrAfter(trk, time) ==
    LET above_ids == {i \in 1..Len(trk) : trk[i].relative_time >= time}
    IN  IF above_ids = {}
        THEN [below |-> None, above |-> None]
        ELSE LET point_id_above == Min(above_ids)
             IN  [below |-> IF point_id_above = 1
                            THEN <<trk[Len(trk)]>>
                            ELSE <<trk[point_id_above - 1]>>,
                  above |-> <<trk[point_id_above]>>]

\* get_surrounding_points_at_time: (below, above), each None (<<>>) or the
\* point in a 1-tuple.  The index below the first point of the track is
\* Python's -1, the last point of the track.
get_surrounding_points_at_time(trk, time) ==
    LET above_ids == {i \in 1..Len(trk) : trk[i].relative_time > time}
    IN  IF above_ids = {}
        THEN [below |-> None, above |-> None]
        ELSE LET point_id_above == Min(above_ids)
             IN  [below |-> IF point_id_above = 1
                            THEN <<trk[Len(trk)]>>
                            ELSE <<trk[point_id_above - 1]>>,
                  above |-> <<trk[point_id_above]>>]

\* the interpolation of get_position_at_time between the bracketing points
interpolate_position(trk, time) ==
    LET s == get_surrounding_points_at_time(trk, time)
    IN  IF s.below = None
        THEN [ret |-> None, error |-> "AttributeError", searched |-> TRUE]
        ELSE LET point_below == s.below[1]
                 point_above == s.above[1]
                 time_below == point_below.relative_time
                 time_above == point_above.relative_time
                 position_above == point_above.position_degrees
                 position_below == point_below.position_degrees
                 new_lat == map_ranges(time, time_below, time_above,
                                       PyFloat(position_below[1], 1),
                                       PyFloat(position_above[1], 1))
                 new_lon == map_ranges(time, time_below, time_above,
                                       PyFloat(position_below[2], 1),
                                       PyFloat(position_above[2], 1))
             IN  IF new_lat.error # ""
                 THEN [ret |-> None, error |-> new_lat.error, searched |-> TRUE]
                 ELSE [ret |-> <<new_lat.ret[1], new_lon.ret[1]>>,
                       error |-> "", searched |-> TRUE]

\* a get_position_at_time that clamps only strictly after the last point
get_position_at_time_Strict(trk, time) ==
    LET last_point == trk[Len(trk)]
    IN  IF time > last_point.relative_time
        THEN [ret |-> get_position_degrees(last_point), error |-> "",
              searched |-> FALSE]
        ELSE interpolate_position(trk, time)

\* get_position_at_time: the (lat, lon) returned, the exception raised, and
\* whether get_surrounding_points_at_time was called
get_position_at_time(trk, time) ==
    LET last_point == trk[Len(trk)]
    IN  IF time >= last_point.relative_time
        THEN [ret |-> get_position_degrees(last_point), error |-> "",
              searched |-> FALSE]
        ELSE interpolate_position(trk, time)

\* a speed measured from the query time to the point above
get_speed_at_time_Instant(trk, time) ==
    LET last_point == trk[Len(trk)]
        s == get_surrounding_points_at_time(trk, time)
    IN  IF time > last_point.relative_time
        THEN [ret |-> <<PyInt(0)>>, error |-> "", searched |-> FALSE]
        ELSE IF s.below = None
        THEN [ret |-> None, error |-> "AttributeError", searched |-> TRUE]
        ELSE LET position_below == s.below[1].position_degrees
                 position_above == s.above[1].position_degrees
                 time_delta == s.above[1].relative_time - time
                 distance == geo_distance(position_below[1], position_below[2],
                                          position_above[1], position_above[2])
             IN  IF time_delta = 0
                 THEN [ret |-> None, error |-> "ZeroDivisionError",
                       searched |-> TRUE]
                 ELSE [ret |-> <<PyFloat(distance.n, distance.d * time_delta)>>,
                       error |-> "", searched |-> TRUE]

\* get_speed_at_time
get_speed_at_time(trk, time) ==
    LET last_point == trk[Len(trk)]
        s == get_surrounding_points_at_time(trk, time)
    IN  IF time > last_point.relative_time
        THEN [ret |-> <<PyInt(0)>>, error |-> "", searched |-> FALSE]
        ELSE IF s.below = None
        THEN [ret |-> None, error |-> "AttributeError", searched |-> TRUE]
        ELSE LET position_below == s.below[1].position_degrees
                 position_above == s.above[1].position_degrees
                 time_delta == s.above[1].relative_time - s.below[1].relative_time
                 distance == geo_distance(position_below[1], position_below[2],
                                          position_above[1], position_above[2])
             IN  IF time_delta = 0
                 THEN [ret |-> None, error |-> "ZeroDivisionError",
                       searched |-> TRUE]
                 ELSE [ret |-> <<PyFloat(distance.n, distance.d * time_delta)>>,
                       error |-> "", searched |-> TRUE]

\* get_cadence_at_time
get_cadence_at_time(trk, time) ==
    LET last_point == trk[Len(trk)]
        s == get_surrounding_points_at_time(trk, time)
    IN  IF time > last_point.relative_time
        THEN [ret |-> <<PyInt(0)>>, error |-> "", searched |-> FALSE]
        ELSE IF s.below = None
        THEN [ret |-> None, error |-> "AttributeError", searched |-> TRUE]
        ELSE LET cadence == map_ranges(time, s.below[1].relative_time,
                                       s.above[1].relative_time,
                                       PyFloat(s.below[1].cadence, 1),
                                       PyFloat(s.above[1].cadence, 1))
             IN  IF cadence.error # ""
                 THEN [ret |-> None, error |-> cadence.error, searched |-> TRUE]
                 ELSE [ret |-> <<round_1(cadence.ret[1])>>, error |-> "",
                       searched |-> TRUE]

\* round(x, 2) of a number: the nearest hundredth, a tie going to the even
\* one; an int stays the int it is
round_2(x) ==
    LET scaled == x.n * 100
        q == scaled \div x.d
        rem == scaled - q * x.d
        up == \/ 2 * rem > x.d
              \/ 2 * rem = x.d /\ q % 2 = 1
    IN  IF x.type = "int" THEN x ELSE PyFloat(IF up THEN q + 1 ELSE q, 100)

\* total_dist += term, for a float term
add_float(total_dist, term) ==
    PyFloat(total_dist.n * term.d + term.n * total_dist.d, total_dist.d * term.d)

\* abs(geo.geo_distance(...)) between two points
abs_distance(point, point_below) ==
    LET d == geo_distance(point.position_degrees[1], point.position_degrees[2],
                          point_below.position_degrees[1],
                          point_below.position_degrees[2])
    IN  PyFloat(Abs(d.n), d.d)

\* the loop of get_cumulative_dist_at_time from the point with (1-based)
\* index point_id on: total_dist when the loop ends, or the exception raised
RECURSIVE cumulative_loop(_, _, _, _)
cumulative_loop(trk, time, point_id, total_dist) ==
    IF point_id > Len(trk)
    THEN [ret |-> <<total_dist>>, error |-> ""]
    ELSE LET point == trk[point_id]
             point_below == trk[point_id - 1]
             dist_between == abs_distance(point, point_below)
             part == map_ranges(time, point_below.relative_time,
                                point.relative_time, PyInt(0), dist_between)
         IN  IF point.relative_time > time
             THEN IF part.error # ""
                  THEN [ret |-> None, error |-> part.error]
                  ELSE [ret |-> <<add_float(total_dist, part.ret[1])>>,
                        error |-> ""]
             ELSE cumulative_loop(trk, time, point_id + 1,
                                  add_float(total_dist, dist_between))

\* get_cumulative_dist_at_time
get_cumulative_dist_at_time(trk, time) ==
    LET r == cumulative_loop(trk, time, 2, PyInt(0))
    IN  IF r.error # ""
        THEN r
        ELSE [ret |-> <<round_2(r.ret[1])>>, error |-> ""]

\* a total distance read at the time of the first point of the track
get_total_distance_AtFirst(trk) ==
    get_cumulative_dist_at_time(trk, trk[1].relative_time)

\* get_total_distance
get_total_distance(trk) ==
    get_cumulative_dist_at_time(trk, trk[Len(trk)].relative_time)

\* Python values that are no numbers
PyStr(text) == [type |-> "str", text |-> text]
PyNone == [type |-> "NoneType"]

\* the product of a float and a decimal literal n / d
times(speed, n, d) == PyFloat(speed.n * n, speed.d * d)

\* the text of an f-string: its fields, the numbers not yet printed
f_string(fields) == [type |-> "str", text |-> fields]

\* the pace branch of convert_speed_units, for a float speed
pace_500m(speed) ==
    IF speed.n = 0
    THEN [ret |-> None, error |-> "ZeroDivisionError"]
    ELSE LET total == round_1(PyFloat(500 * speed.d, speed.n))
             mins == total.n \div (60 * total.d)
             secs == PyFloat(total.n - mins * 60 * total.d, total.d)
         IN  [ret |-> <<f_string(<<PyInt(mins), ":", secs, " /500m">>)>>,
              error |-> ""]

\* a convert_speed_units that prints m/s for a unit it does not know
convert_speed_units_Lenient(speed, unit) ==
    IF speed.type # "float"
    THEN [ret |-> None, error |-> "TypeError"]
    ELSE IF unit.type # "str"
    THEN [ret |-> None, error |-> "TypeError"]
    ELSE IF unit.text = "km/h"
    THEN [ret |-> <<f_string(<<times(speed, 36, 10), " km/h">>)>>, error |-> ""]
    ELSE IF unit.text = "mph"
    THEN [ret |-> <<f_string(<<times(speed, 2237, 1000), " mph">>)>>, error |-> ""]
    ELSE IF unit.text = "s/500m"
    THEN pace_500m(speed)
    ELSE [ret |-> <<f_string(<<speed, " m/s">>)>>, error |-> ""]

\* convert_speed_units: the string returned, or the exception raised
convert_speed_units(speed, unit) ==
    IF speed.type # "float"
    THEN [ret |-> None, error |-> "TypeError"]
    ELSE IF unit.type # "str"
    THEN [ret |-> None, error |-> "TypeError"]
    ELSE IF unit.text = "m/s"
    THEN [ret |-> <<f_string(<<speed, " m/s">>)>>, error |-> ""]
    ELSE IF unit.text = "km/h"
    THEN [ret |-> <<f_string(<<times(speed, 36, 10), " km/h">>)>>, error |-> ""]
    ELSE IF unit.text = "mph"
    THEN [ret |-> <<f_string(<<times(speed, 2237, 1000), " mph">>)>>, error |-> ""]
    ELSE IF unit.text = "s/500m"
    THEN pace_500m(speed)
    ELSE [ret |-> None, error |-> "ValueError"]

----------------------------------------------------------------------------
(* gui_stats_menu.py: StatsMenuFrame.display_text *)

\* a > b of two Python numbers
greater(a, b) == a.n * b.d > b.n * a.d

\* the for loop of display_text over the items of data_in from item i on:
\* the greatest distance met so far and its key (None while none was met)
RECURSIVE max_scan(_, _, _, _)
max_scan(data_in, i, max_dist, max_key) ==
    IF i > Len(data_in)
    THEN [max_dist |-> max_dist, max_key |-> max_key]
    ELSE IF greater(data_in[i].value.dist, max_dist)
    THEN max_scan(data_in, i + 1, data_in[i].value.dist, <<data_in[i].key>>)
    ELSE max_scan(data_in, i + 1, max_dist, max_key)

\* the dict without the item of a key, the other items in their order
del_item(data_in, key) ==
    SelectSeq(data_in, LAMBDA item : item.key # key)

\* the value of a key of the dict
item_of(data_in, key) ==
    (CHOOSE item \in {data_in[i] : i \in 1..Len(data_in)} : item.key = key).value

\* the distance as it is shown: 'FIN' above 100000, else the number and 'm'
new_dist(max_dist) ==
    IF greater(max_dist, PyInt(100000))
    THEN PyStr("FIN")
    ELSE f_string(<<max_dist, "m">>)

\* the while loop of display_text: data_in is a dict in the order of its
\* items, a sequence of [key, value]; the loop ends with the rows selected
\* and the items left, or with the KeyError of data_in[None]
RECURSIVE selection_loop(_, _)
selection_loop(data_in, modified_data) ==
    IF Len(data_in) = 0
    THEN [modified_data |-> modified_data, data_in |-> data_in, error |-> ""]
    ELSE LET found == max_scan(data_in, 1, PyInt(-1), None)
         IN  IF found.max_key = None
             THEN [modified_data |-> modified_data, data_in |-> data_in,
                   error |-> "KeyError"]
             ELSE selection_loop(
                      del_item(data_in, found.max_key[1]),
                      Append(modified_data,
                             [name |-> found.max_key[1],
                              dist |-> new_dist(found.max_dist),
                              spd |-> item_of(data_in, found.max_key[1]).spd,
                              cad |-> item_of(data_in, found.max_key[1]).cad]))

\* display_text: the rows of the label in their order (the padding between
\* the columns is layout and left out), the items left in the caller's dict,
\* and the exception raised; max() of no row raises ValueError
display_text(data_in) ==
    LET sorted == selection_loop(data_in, <<>>)
    IN  IF sorted.error # ""
        THEN [label |-> None, data_in |-> sorted.data_in, error |-> sorted.error]
        ELSE IF Len(sorted.modified_data) = 0
        THEN [label |-> None, data_in |-> sorted.data_in, error |-> "ValueError"]
        ELSE [label |-> << [position \in 1..Len(sorted.modified_data) |->
                            [position |-> position,
                             name |-> sorted.modified_data[position].name,
                             dist |-> sorted.modified_data[position].dist,
                             spd |-> sorted.modified_data[position].spd,
                             cad |-> sorted.modified_data[position].cad]] >>,
              data_in |-> sorted.data_in,
              error |-> ""]

----------------------------------------------------------------------------
(* The inputs of a direct __add_images call *)

Images == {"imgA", "imgB"}

TileKeys == {<<2, 3>>, <<4, 5>>, <<3, 4>>, <<2, 5>>}

TileMaps ==
    UNION {[ks -> Images] : ks \in {s \in SUBSET TileKeys : Cardinality(s) <= MaxNew}}

----------------------------------------------------------------------------
(* Initial state *)

NoTrack == <<>>

Init ==
    /\ self = NewMapClass
    /\ canvas = NewFigure
    /\ disk = EmptyDict
    /\ requests = <<>>
    /\ op = "init"
    /\ arg = None
    /\ ret = None
    /\ error = ""
    /\ track = NoTrack
    /\ searched = FALSE

----------------------------------------------------------------------------
(* Operations on the tile space *)

\* a call of MapClass.__add_images with a tile map
AddImages(_image_dict) ==
    LET r == add_images(self, _image_dict)
    IN  /\ self' = r.m
        /\ op' = "add_images"
        /\ arg' = _image_dict
        /\ ret' = None
        /\ error' = r.error
        /\ UNCHANGED <<canvas, disk, requests, track, searched>>

NextTiles == \E _image_dict \in TileMaps : AddImages(_image_dict)

SpecTiles == Init /\ [][NextTiles]_vars

----------------------------------------------------------------------------
(* Operations on the tile cache *)

\* the tiles get_img is called for
CacheTiles == {<<1, 1>>, <<1, 2>>, <<2, 1>>}

\* the cache folder at the start: any of the three files of tile (1, 1),
\* left by earlier sessions, each holding an image of its own
OldFiles == {cache_name(Zoom, 1, 1, endings[i]) : i \in 1..Len(endings)}
InitialDisks == {[n \in names |-> "old." \o n[4]] : names \in SUBSET OldFiles}

InitCache ==
    /\ self = NewMapClass
    /\ canvas = NewFigure
    /\ disk \in InitialDisks
    /\ requests = <<>>
    /\ op = "init"
    /\ arg = None
    /\ ret = None
    /\ error = ""
    /\ track = NoTrack
    /\ searched = FALSE

\* a call of get_img(x_coord, y_coord, 17), the server answering `response`
GetImg(x_coord, y_coord, response) ==
    LET r == get_img(x_coord, y_coord, Zoom, disk, response)
    IN  /\ disk' = r.disk
        /\ requests' = IF r.requested THEN <<(<<(<<x_coord, y_coord>>), response>>)>>
                       ELSE <<>>
        /\ op' = "get_img"
        /\ arg' = <<x_coord, y_coord>>
        /\ ret' = r.img
        /\ error' = r.error
        /\ UNCHANGED <<self, canvas, track, searched>>

NextCache ==
    \E t \in CacheTiles, response \in Responses : GetImg(t[1], t[2], response)

SpecCache == InitCache /\ [][NextCache]_vars

----------------------------------------------------------------------------
(* Operations on the map *)

\* the athletes (file name -> the dict of its data) and the positions the
\* map is called with
AthleteKeys == {"a_gpx", "b_gpx"}
AthleteValues ==
    [ a_gpx |-> AthleteValue(<<TrackPoint(4, 4, 0, 30), TrackPoint(5, 4, 10, 40)>>,
                             "red", "crew A"),
      b_gpx |-> AthleteValue(<<TrackPoint(6, 4, 0, 30), TrackPoint(7, 4, 10, 30)>>,
                             "blue", "crew B") ]
MapPositions == {<<4, 4>>, <<7, 4>>}
MapSegments == {<<(<<4, 4>>), (<<7, 4>>)>>}

\* a call of add_athlete; the server fails the request of tile number
\* fail_at of the loop with fetch_error, should that tile be asked for
AddAthlete(athlete_key, athlete_value, fail_at, fetch_error) ==
    \E n \in {Len(tiles_in_bounds(set_gpx_bounds(self,
                  get_track_bounds(athlete_value.track)).gpx_bounds_deg))} :
    \E r \in {add_athlete(self, canvas, disk, athlete_key, athlete_value,
                  [i \in 1..n |-> IF i = fail_at THEN fetch_error ELSE "ok"])} :
        /\ fail_at <= n
        /\ self' = r.m
        /\ canvas' = r.cv
        /\ disk' = r.disk
        /\ requests' = r.requests
        /\ op' = "add_athlete"
        /\ arg' = athlete_key
        /\ ret' = None
        /\ error' = r.error
        /\ UNCHANGED <<track, searched>>

\* a call of degrees_to_graph
DegreesToGraph(degrees) ==
    LET r == degrees_to_graph(self, degrees)
    IN  /\ op' = "degrees_to_graph"
        /\ arg' = degrees
        /\ ret' = r.ret
        /\ error' = r.error
        /\ requests' = <<>>
        /\ UNCHANGED <<self, canvas, disk, track, searched>>

\* a call of draw_line with the default colour and width
DrawLine(start, end) ==
    \E r \in {draw_line(self, canvas, start, end, "green")} :
        /\ canvas' = r.cv
        /\ op' = "draw_line"
        /\ arg' = <<start, end>>
        /\ ret' = r.ret
        /\ error' = r.error
        /\ requests' = <<>>
        /\ UNCHANGED <<self, disk, track, searched>>

\* a call of draw_point with the default colour and size
DrawPoint(athlete_key, pos) ==
    \E r \in {draw_point(self, canvas, athlete_key, pos, "green")} :
        /\ self' = r.m
        /\ canvas' = r.cv
        /\ op' = "draw_point"
        /\ arg' = <<athlete_key, pos>>
        /\ ret' = None
        /\ error' = r.error
        /\ requests' = <<>>
        /\ UNCHANGED <<disk, track, searched>>

\* a call of remove_point
RemovePoint(athlete_key) ==
    /\ IF athlete_key \in DOMAIN self.athletes
       THEN \E r \in {remove_point(self, canvas, athlete_key)} :
                /\ self' = r.m
                /\ canvas' = r.cv
                /\ error' = ""
       ELSE /\ error' = "KeyError"
            /\ UNCHANGED <<self, canvas>>
    /\ op' = "remove_point"
    /\ arg' = athlete_key
    /\ ret' = None
    /\ requests' = <<>>
    /\ UNCHANGED <<disk, track, searched>>

\* a call of draw_track with the colour of the athlete
DrawTrack(athlete_key) ==
    /\ IF athlete_key \in DOMAIN self.athletes
       THEN \E r \in {draw_track(self, canvas, athlete_key,
                                 self.athletes[athlete_key].colour)} :
                /\ self' = r.m
                /\ canvas' = r.cv
                /\ error' = r.error
       ELSE /\ error' = "KeyError"
            /\ UNCHANGED <<self, canvas>>
    /\ op' = "draw_track"
    /\ arg' = athlete_key
    /\ ret' = None
    /\ requests' = <<>>
    /\ UNCHANGED <<disk, track, searched>>

\* a call of modify_athlete
ModifyAthlete(athlete_key, new_value) ==
    \E r \in {modify_athlete(self, canvas, athlete_key, new_value)} :
        /\ self' = r.m
        /\ canvas' = r.cv
        /\ op' = "modify_athlete"
        /\ arg' = athlete_key
        /\ ret' = None
        /\ error' = r.error
        /\ requests' = <<>>
        /\ UNCHANGED <<disk, track, searched>>

\* a call of remove_athlete
RemoveAthlete(athlete_key) ==
    \E r \in {remove_athlete(self, canvas, athlete_key)} :
        /\ self' = r.m
        /\ canvas' = r.cv
        /\ op' = "remove_athlete"
        /\ arg' = athlete_key
        /\ ret' = None
        /\ error' = r.error
        /\ requests' = <<>>
        /\ UNCHANGED <<disk, track, searched>>

\* the colour and the name modify_athlete is called with
NewValues == {[colour |-> "green", display_name |-> "crew C"]}

\* the figure has made fewer than `most` artists and may make n more
Room(n, most) == canvas.created + n <= most

\* the segments drawn for the track of an athlete
Segments(athlete_key) == Len(AthleteValues[athlete_key].track) - 1

NextMap ==
    \/ \E k \in AthleteKeys, f \in 0..MaxFailAt, e \in FetchErrors :
          Room(Segments(k), MaxArtists) /\ AddAthlete(k, AthleteValues[k], f, e)
    \/ \E p \in MapPositions : DegreesToGraph(p)
    \/ \E seg \in MapSegments : Room(1, MaxArtists) /\ DrawLine(seg[1], seg[2])
    \/ \E k \in AthleteKeys, p \in MapPositions :
          Room(1, MaxArtists) /\ DrawPoint(k, p)

SpecMap == Init /\ [][NextMap]_vars

----------------------------------------------------------------------------
(* The overlay: athletes added, changed, drawn and removed *)

\* the position the marker of an athlete is drawn at
MarkerPositions == {<<4, 4>>}

NextOverlay ==
    \/ \E k \in AthleteKeys, f \in 0..1 :
          Room(Segments(k), MaxDrawn) /\ AddAthlete(k, AthleteValues[k], f, "URLError")
    \/ \E k \in AthleteKeys, p \in MarkerPositions :
          Room(1, MaxDrawn) /\ DrawPoint(k, p)
    \/ \E k \in AthleteKeys : RemovePoint(k)
    \/ \E k \in AthleteKeys : Room(Segments(k), MaxDrawn) /\ DrawTrack(k)
    \/ \E k \in AthleteKeys, v \in NewValues :
          Room(Segments(k), MaxDrawn) /\ ModifyAthlete(k, v)
    \/ \E k \in AthleteKeys : RemoveAthlete(k)

SpecOverlay == Init /\ [][NextOverlay]_vars

----------------------------------------------------------------------------
(* Operations on a track *)

\* the tracks the parser hands over: non-empty and sorted by relative_time,
\* equal times allowed
SamplePositions == {<<4, 4>>, <<6, 5>>}
SampleCadences == {20, 25}
SamplePoints ==
    {TrackPoint(p[1], p[2], t, c) :
        p \in SamplePositions, t \in 0..MaxTime, c \in SampleCadences}
Tracks ==
    {trk \in UNION {[1..n -> SamplePoints] : n \in 1..MaxPoints} :
        \A i \in 1..(Len(trk) - 1) : trk[i].relative_time <= trk[i + 1].relative_time}

\* the query times: from before the first sample to after the last
QueryTimes == (-1)..(MaxTime + 1)

InitSampler ==
    /\ self = NewMapClass
    /\ canvas = NewFigure
    /\ disk = EmptyDict
    /\ requests = <<>>
    /\ op = "init"
    /\ arg = None
    /\ ret = None
    /\ error = ""
    /\ track \in Tracks
    /\ searched = FALSE

\* a call of get_surrounding_points_at_time(track, time): the pair returned
GetSurroundingPointsAtTime(time) ==
    LET r == get_surrounding_points_at_time(track, time)
    IN  /\ op' = "get_surrounding_points_at_time"
        /\ arg' = time
        /\ ret' = <<r.below, r.above>>
        /\ error' = ""
        /\ searched' = TRUE
        /\ UNCHANGED <<self, canvas, disk, requests, track>>

\* a call of get_position_at_time(track, time)
GetPositionAtTime(time) ==
    LET r == get_position_at_time(track, time)
    IN  /\ op' = "get_position_at_time"
        /\ arg' = time
        /\ ret' = r.ret
        /\ error' = r.error
        /\ searched' = r.searched
        /\ UNCHANGED <<self, canvas, disk, requests, track>>

\* a call of get_speed_at_time(track, time)
GetSpeedAtTime(time) ==
    LET r == get_speed_at_time(track, time)
    IN  /\ op' = "get_speed_at_time"
        /\ arg' = time
        /\ ret' = r.ret
        /\ error' = r.error
        /\ searched' = r.searched
        /\ UNCHANGED <<self, canvas, disk, requests, track>>

\* a call of get_cadence_at_time(track, time)
GetCadenceAtTime(time) ==
    LET r == get_cadence_at_time(track, time)
    IN  /\ op' = "get_cadence_at_time"
        /\ arg' = time
        /\ ret' = r.ret
        /\ error' = r.error
        /\ searched' = r.searched
        /\ UNCHANGED <<self, canvas, disk, requests, track>>

\* a call of get_cumulative_dist_at_time(track, time)
GetCumulativeDistAtTime(time) ==
    LET r == get_cumulative_dist_at_time(track, time)
    IN  /\ op' = "get_cumulative_dist_at_time"
        /\ arg' = time
        /\ ret' = r.ret
        /\ error' = r.error
        /\ searched' = FALSE
        /\ UNCHANGED <<self, canvas, disk, requests, track>>

\* a call of get_total_distance(track)
GetTotalDistance ==
    LET r == get_total_distance(track)
    IN  /\ op' = "get_total_distance"
        /\ arg' = None
        /\ ret' = r.ret
        /\ error' = r.error
        /\ searched' = FALSE
        /\ UNCHANGED <<self, canvas, disk, requests, track>>

NextSampler ==
    \/ \E time \in QueryTimes :
          \/ GetPositionAtTime(time)
          \/ GetSpeedAtTime(time)
          \/ GetCadenceAtTime(time)
          \/ GetCumulativeDistAtTime(time)
          \/ GetSurroundingPointsAtTime(time)
    \/ GetTotalDistance

----------------------------------------------------------------------------
(* The sampler on longer tracks, where points inside the track share a time *)

\* the most points of such a track
MaxTiePoints == 3

TiePoints ==
    {TrackPoint(p[1], p[2], t, 20) : p \in SamplePositions, t \in 0..MaxTime}
TiedTracks ==
    {trk \in UNION {[1..n -> TiePoints] : n \in 1..MaxTiePoints} :
        \A i \in 1..(Len(trk) - 1) : trk[i].relative_time <= trk[i + 1].relative_time}

InitTies ==
    /\ self = NewMapClass
    /\ canvas = NewFigure
    /\ disk = EmptyDict
    /\ requests = <<>>
    /\ op = "init"
    /\ arg = None
    /\ ret = None
    /\ error = ""
    /\ track \in TiedTracks
    /\ searched = FALSE

SpecTies == InitTies /\ [][NextSampler]_vars

----------------------------------------------------------------------------
(* The unit conversion: convert_speed_units on speeds and units of any type *)

\* the greatest float speed handed to convert_speed_units, in halves of a m/s
MaxHalves == 8

\* the speeds and the units convert_speed_units is called with
RecognisedUnits == {"m/s", "km/h", "mph", "s/500m"}
SpeedInputs ==
    {PyFloat(n, 2) : n \in 0..MaxHalves} \cup {PyInt(0), PyInt(2), PyStr("fast"), PyNone}
UnitInputs ==
    {PyStr(u) : u \in RecognisedUnits \cup {"knots", ""}} \cup {PyInt(1), PyNone}

\* a call of convert_speed_units(speed, unit)
ConvertSpeedUnits(speed, unit) ==
    LET r == convert_speed_units(speed, unit)
    IN  /\ op' = "convert_speed_units"
        /\ arg' = <<speed, unit>>
        /\ ret' = r.ret
        /\ error' = r.error
        /\ searched' = FALSE
        /\ UNCHANGED <<self, canvas, disk, requests, track>>

NextUnits ==
    \E speed \in SpeedInputs, unit \in UnitInputs : ConvertSpeedUnits(speed, unit)

SpecUnits == Init /\ [][NextUnits]_vars

----------------------------------------------------------------------------
(* The speed of a track at a time, converted for display *)

\* convert_speed_units(get_speed_at_time(track, time), unit): the string, or
\* the exception either call raised
speed_for_display(trk, time, unit) ==
    LET speed == get_speed_at_time(trk, time)
    IN  IF speed.error # ""
        THEN [ret |-> None, error |-> speed.error]
        ELSE convert_speed_units(speed.ret[1], unit)

\* a call of convert_speed_units on the speed of the track at a time
ConvertSpeedAtTime(time, unit) ==
    LET r == speed_for_display(track, time, unit)
    IN  /\ op' = "convert_speed_units(get_speed_at_time)"
        /\ arg' = <<time, unit>>
        /\ ret' = r.ret
        /\ error' = r.error
        /\ searched' = FALSE
        /\ UNCHANGED <<self, canvas, disk, requests, track>>

NextDisplay ==
    \E time \in QueryTimes, unit \in RecognisedUnits :
        ConvertSpeedAtTime(time, PyStr(unit))

SpecDisplay == InitSampler /\ [][NextDisplay]_vars

----------------------------------------------------------------------------
(* The stats menu: display_text on the distances of the sampler *)

\* the most athletes of one display_text call
MaxAthletes == 2

AthleteNames == {"Canford", "Emmanuel", "Winchester"}

\* the distances get_cumulative_dist_at_time returns for some track and some
\* query time
SamplerDistances ==
    {r.ret[1] : r \in {q \in {get_cumulative_dist_at_time(trk, time) :
                                 trk \in Tracks, time \in QueryTimes} : q.error = ""}}

\* the dicts handed to display_text: up to MaxAthletes athletes in any order
\* of insertion, each with a distance of the sampler
StatsInputs ==
    {data \in UNION {[1..n -> [key : AthleteNames,
                               value : [dist : SamplerDistances,
                                        spd : {"1:53.2 s/500m"},
                                        cad : {38}]]] : n \in 0..MaxAthletes} :
        \A i, j \in 1..Len(data) : data[i].key = data[j].key => i = j}

\* a call of display_text(data_in)
DisplayText(data_in) ==
    LET r == display_text(data_in)
    IN  /\ op' = "display_text"
        /\ arg' = data_in
        /\ ret' = <<r.label, r.data_in>>
        /\ error' = r.error
        /\ UNCHANGED <<self, canvas, disk, requests, track, searched>>

NextStats == \E data_in \in StatsInputs : DisplayText(data_in)

SpecStats == Init /\ [][NextStats]_vars

SpecSampler == InitSampler /\ [][NextSampler]_vars

----------------------------------------------------------------------------
(* Properties of the tile space *)

\* (north, east, south, west) of the raw tile keys, read off the raw keys
RawKeys == DOMAIN self.raw_image_dict
RawNorth == Min({k[2] : k \in RawKeys})
RawSouth == Max({k[2] : k \in RawKeys})
RawWest == Min({k[1] : k \in RawKeys})
RawEast == Max({k[1] : k \in RawKeys})

\* C1: first-write-wins.  A step never removes a key of the raw tile
\* dictionary nor replaces its image; an __add_images call leaves every
\* supplied key present, and a key it adds holds the image it supplied, so
\* the image under a key is the one of the first call that contained it.
C1_FirstWriteWins ==
    [][ /\ \A k \in DOMAIN self.raw_image_dict :
              /\ k \in DOMAIN self'.raw_image_dict
              /\ self'.raw_image_dict[k] = self.raw_image_dict[k]
        /\ op' = "add_images" =>
              /\ DOMAIN self'.raw_image_dict =
                     DOMAIN self.raw_image_dict \cup DOMAIN arg'
              /\ \A k \in DOMAIN arg' \ DOMAIN self.raw_image_dict :
                     self'.raw_image_dict[k] = arg'[k]
      ]_vars

\* a later call supplied another image for a key already stored
C1_Witness ==
    /\ op = "add_images"
    /\ error = ""
    /\ \E k \in DOMAIN arg : self.raw_image_dict[k] # arg[k]

\* C2: after a completed __add_images the local dictionary, the plot bounds
\* and the degree bounds are all those of the current raw keys: the local
\* dictionary is {(x - west, south - y) -> raw[(x, y)]}, with as many
\* entries, tile_bounds_plt is ((south-north+1)*tile_size,
\* (east-west+1)*tile_size, 0, 0) and tile_bounds_deg spans the corners
\* num2deg(east+1, north) and num2deg(west, south+1).
C2_TileSpaceConsistent ==
    RawKeys # {} =>
        /\ DOMAIN self.image_dict =
               {<<k[1] - RawWest, RawSouth - k[2]>> : k \in RawKeys}
        /\ Cardinality(DOMAIN self.image_dict) = Cardinality(RawKeys)
        /\ \A k \in RawKeys :
               self.image_dict[<<k[1] - RawWest, RawSouth - k[2]>>] =
                   self.raw_image_dict[k]
        /\ self.tile_bounds_plt =
               <<(RawSouth - RawNorth + 1) * tile_size,
                 (RawEast - RawWest + 1) * tile_size, 0, 0>>
        /\ self.tile_bounds_deg =
               <<num2deg(RawEast + 1, RawNorth)[1],
                 num2deg(RawEast + 1, RawNorth)[2],
                 num2deg(RawWest, RawSouth + 1)[1],
                 num2deg(RawWest, RawSouth + 1)[2]>>

\* a second call has grown the tile rectangle
C2_Witness ==
    /\ op = "add_images"
    /\ error = ""
    /\ Cardinality(RawKeys) >= 3
    /\ DOMAIN arg # RawKeys
    /\ RawEast > RawWest
    /\ RawSouth > RawNorth

\* C3: the local keys are non-negative with smallest x 0 and smallest y 0,
\* a raw tile at (min x, max y) is the local tile (0, 0), of two raw tiles
\* the more northern one (smaller y) has the larger local y, and the raw
\* keys {(2,3), (4,5)} become the local keys {(0,2), (2,0)}.
C3_SouthWestOrigin ==
    RawKeys # {} =>
        /\ \A k \in DOMAIN self.image_dict : k[1] >= 0 /\ k[2] >= 0
        /\ \E k \in DOMAIN self.image_dict : k[1] = 0
        /\ \E k \in DOMAIN self.image_dict : k[2] = 0
        /\ <<RawWest, RawSouth>> \in RawKeys =>
               /\ <<0, 0>> \in DOMAIN self.image_dict
               /\ self.image_dict[<<0, 0>>] =
                      self.raw_image_dict[<<RawWest, RawSouth>>]
        /\ \A a, b \in RawKeys :
               a[2] < b[2] =>
                   \E la, lb \in DOMAIN self.image_dict :
                       /\ la[1] = a[1] - RawWest
                       /\ lb[1] = b[1] - RawWest
                       /\ self.image_dict[la] = self.raw_image_dict[a]
                       /\ self.image_dict[lb] = self.raw_image_dict[b]
                       /\ la[2] - lb[2] = b[2] - a[2]
        /\ RawKeys = {<<2, 3>>, <<4, 5>>} =>
               DOMAIN self.image_dict = {<<0, 2>>, <<2, 0>>}

\* the tile set of the scenario
C3_Witness ==
    /\ op = "add_images"
    /\ RawKeys = {<<2, 3>>, <<4, 5>>}
    /\ DOMAIN self.image_dict = {<<0, 2>>, <<2, 0>>}

\* C8: an __add_images call with an empty tile map on an empty raw
\* dictionary raises ValueError and leaves tile_bounds_plt, tile_bounds_deg
\* and the local dictionary as they were.
C8_EmptyRecomputeRaises ==
    [][ ( /\ op' = "add_images"
          /\ DOMAIN self.raw_image_dict = {}
          /\ DOMAIN arg' = {} ) =>
            /\ error' = "ValueError"
            /\ self'.tile_bounds_plt = self.tile_bounds_plt
            /\ self'.tile_bounds_deg = self.tile_bounds_deg
            /\ self'.image_dict = self.image_dict
            /\ self'.raw_image_dict = self.raw_image_dict
      ]_vars

\* the empty call has been made on the empty dictionary
C8_Witness ==
    /\ op = "add_images"
    /\ DOMAIN arg = {}
    /\ RawKeys = {}
    /\ error = "ValueError"
    /\ self.tile_bounds_plt = None

----------------------------------------------------------------------------
(* Properties of the tile cache *)

\* the endings under which tile t has a cache file
CachedEndings(dsk, t) ==
    {i \in 1..Len(endings) : cache_name(Zoom, t[2], t[1], endings[i]) \in DOMAIN dsk}

\* C4: when get_img has returned, a cache file of the tile exists; no file
\* is ever removed or rewritten; and a get_img call for a tile that has a
\* cache file asks the server for nothing, writes nothing and returns.
C4_FetchThenPersist ==
    /\ []((op = "get_img" /\ error = "") => CachedEndings(disk, arg) # {})
    /\ [][ /\ \A n \in DOMAIN disk : n \in DOMAIN disk' /\ disk'[n] = disk[n]
           /\ \A t \in CacheTiles :
                  (CachedEndings(disk, t) # {} /\ op' = "get_img" /\ arg' = t) =>
                      /\ requests' = <<>>
                      /\ disk' = disk
                      /\ error' = ""
         ]_vars

\* a tile that was not cached has been downloaded, and asked for again
C4_Witness ==
    /\ op = "get_img"
    /\ error = ""
    /\ requests = <<>>
    /\ ret = <<SavedAsJpg(ServerImage)>>
    /\ cache_name(Zoom, arg[2], arg[1], "jpg") \in DOMAIN disk

\* C5: when a tile has cache files under several endings, get_img returns
\* the image of the first of jpg, jpeg, png that exists.
C5_FirstExistingEndingWins ==
    ( /\ op = "get_img"
      /\ error = ""
      /\ Cardinality(CachedEndings(disk, arg)) > 1 ) =>
        ret = <<disk[cache_name(Zoom, arg[2], arg[1],
                                endings[Min(CachedEndings(disk, arg))])]>>

\* get_img has returned the image of a later ending although the file of an
\* earlier ending exists
C5_Witness ==
    /\ op = "get_img"
    /\ error = ""
    /\ \E i, j \in CachedEndings(disk, arg) :
           /\ i < j
           /\ disk[cache_name(Zoom, arg[2], arg[1], endings[i])] #
                  disk[cache_name(Zoom, arg[2], arg[1], endings[j])]
           /\ ret = <<disk[cache_name(Zoom, arg[2], arg[1], endings[j])]>>

----------------------------------------------------------------------------
(* Properties of the map *)

\* the requests of the last operation the server answered with a failure
FailedRequests == {i \in 1..Len(requests) : requests[i][2] \in FetchErrors}

\* C6: when the server (or the decoder) has failed a request of an
\* add_athlete call, the call has raised exactly that error, the failed
\* request is the last one the call made and the only one for its tile, no
\* cache file exists for that tile, and the tile is in no tile dictionary.
C6_FailedFetchReportedOnce ==
    (op = "add_athlete" /\ FailedRequests # {}) =>
        LET last == Len(requests)
            tile == requests[last][1]
        IN  /\ FailedRequests = {last}
            /\ error = requests[last][2]
            /\ ret = None
            /\ Cardinality({i \in 1..last : requests[i][1] = tile}) = 1
            /\ CachedEndings(disk, tile) = {}
            /\ tile \notin DOMAIN self.raw_image_dict

\* an add_athlete call has downloaded a tile and then met a tile whose
\* download could not be decoded
C6_Witness ==
    /\ op = "add_athlete"
    /\ error = "UnidentifiedImageError"
    /\ Len(requests) >= 2
    /\ requests[Len(requests)][2] = "UnidentifiedImageError"
    /\ requests[1][2] = "ok"
    /\ CachedEndings(disk, requests[1][1]) # {}

\* C7: in a state where gpx_bounds_deg or tile_bounds_deg is not set, a call
\* of degrees_to_graph raises ValueError and returns nothing, and a call of
\* draw_line or draw_point raises and leaves the figure as it was.
C7_UnsetBoundsRaise ==
    [][ ( /\ self.gpx_bounds_deg = None \/ self.tile_bounds_deg = None
          /\ op' \in {"degrees_to_graph", "draw_line", "draw_point"} ) =>
            /\ error' # ""
            /\ ret' = None
            /\ canvas' = canvas
            /\ op' = "degrees_to_graph" => error' = "ValueError"
      ]_vars

\* degrees_to_graph has raised in the state a failed add_athlete left: the
\* track bounds are set, the tile bounds are not
C7_Witness ==
    /\ op = "degrees_to_graph"
    /\ error = "ValueError"
    /\ ret = None
    /\ self.gpx_bounds_deg # None
    /\ self.tile_bounds_deg = None
    /\ DOMAIN self.athletes # {}

----------------------------------------------------------------------------
(* Properties of the track sampler *)

\* the relative_time of the last point of the track
LastTime == track[Len(track)].relative_time

\* C9: when no point of the track has a relative_time greater than the query
\* time (the query time is the last point's time or later),
\* get_speed_at_time and get_cadence_at_time return 0.
C9_FinishedTrackZero ==
    ( /\ op \in {"get_speed_at_time", "get_cadence_at_time"}
      /\ \A i \in 1..Len(track) : ~(track[i].relative_time > arg) ) =>
        /\ error = ""
        /\ ret # None
        /\ ret[1].n = 0

\* get_speed_at_time, asked for the time of the last point, has raised
C9_Witness ==
    /\ op = "get_speed_at_time"
    /\ arg = LastTime
    /\ error = "AttributeError"
    /\ ret = None

\* C10: for a query time at or after the last point's relative_time,
\* get_position_at_time returns the position of the last point and does not
\* run the bracket search.
C10_PositionClamped ==
    (op = "get_position_at_time" /\ arg >= LastTime) =>
        /\ error = ""
        /\ ret = get_position_degrees(track[Len(track)])
        /\ searched = FALSE

\* the position has been asked for at exactly the time of the last point of
\* a track whose points lie apart
C10_Witness ==
    /\ op = "get_position_at_time"
    /\ arg = LastTime
    /\ Len(track) >= 2
    /\ track[1].position_degrees # track[Len(track)].position_degrees
    /\ ret = get_position_degrees(track[Len(track)])
    /\ searched = FALSE

\* the sum of the distances between the consecutive points of the track
\* from point i on, as a fraction <<numerator, denominator>>
RECURSIVE SegmentSum(_, _)
SegmentSum(trk, i) ==
    IF i >= Len(trk)
    THEN <<0, 1>>
    ELSE LET d == geo_distance(trk[i].position_degrees[1], trk[i].position_degrees[2],
                               trk[i + 1].position_degrees[1],
                               trk[i + 1].position_degrees[2])
             rest == SegmentSum(trk, i + 1)
         IN  <<d.n * rest[2] + rest[1] * d.d, d.d * rest[2]>>

\* the value of a Python number, as a fraction in lowest terms
ValueOf(x) == <<Rat(x.n, x.d).n, Rat(x.n, x.d).d>>

\* C11: for a query time at or after the last point's relative_time,
\* get_cumulative_dist_at_time returns what get_total_distance returns, and
\* both return the sum of the distances between the consecutive points of
\* the track, rounded to 2 places.
C11_CumulativeAtEndIsTotal ==
    LET whole == round_2(PyFloat(SegmentSum(track, 1)[1], SegmentSum(track, 1)[2]))
    IN  ( \/ op = "get_cumulative_dist_at_time" /\ arg >= LastTime
          \/ op = "get_total_distance" ) =>
            /\ error = ""
            /\ ret # None
            /\ ValueOf(ret[1]) = ValueOf(whole)
            /\ ret = get_total_distance(track).ret
            /\ ret = get_cumulative_dist_at_time(track, LastTime).ret

\* the cumulative distance has been asked for after the end of a track of
\* several points that lie apart
C11_Witness ==
    /\ op = "get_cumulative_dist_at_time"
    /\ arg > LastTime
    /\ Len(track) >= 2
    /\ track[1].relative_time < LastTime
    /\ ret # None
    /\ ret[1].n > 0

\* the pair of points the bracket search selects for the last query
Bracket == get_surrounding_points_at_time(track, arg)

\* the last query time lies in the interval of the pair the search selected
InBracket ==
    /\ Bracket.below # None
    /\ Bracket.below[1].relative_time <= arg
    /\ arg < Bracket.above[1].relative_time

----------------------------------------------------------------------------
(* Properties of the overlay *)

\* the markers and the line segments on the figure
Markers == {a \in canvas.artists : a.kind = "marker"}
Lines == {a \in canvas.artists : a.kind = "line"}

\* the athletes whose 'draw_point' entry is the artist with handle h
PointOwners(h) ==
    {k \in DOMAIN self.athletes : self.athletes[k].draw_point = <<"artist", h>>}

\* the athletes whose 'draw_track' entry lists the artist with handle h
TrackOwners(h) ==
    {k \in DOMAIN self.athletes :
        /\ self.athletes[k].draw_track # Absent
        /\ self.athletes[k].draw_track # None
        /\ \E i \in 1..Len(self.athletes[k].draw_track[2]) :
               self.athletes[k].draw_track[2][i] = h}

\* C13: every marker on the figure is the 'draw_point' entry of exactly one
\* athlete of the table, and every 'draw_point' entry that is not None is a
\* marker on the figure: an athlete has at most one marker, the one its
\* entry refers to.
C13_OneMarkerPerAthlete ==
    /\ \A a \in Markers : Cardinality(PointOwners(a.handle)) = 1
    /\ \A k \in DOMAIN self.athletes :
           ( /\ self.athletes[k].draw_point # Absent
             /\ self.athletes[k].draw_point # None ) =>
               \E a \in Markers : self.athletes[k].draw_point = <<"artist", a.handle>>

\* add_athlete, called for an athlete already in the table, has left the
\* marker of that athlete on the figure and no reference to it in the table
C13_Witness ==
    /\ op = "add_athlete"
    /\ error = ""
    /\ arg \in DOMAIN self.athletes
    /\ self.athletes[arg].draw_point = Absent
    /\ \E a \in Markers : PointOwners(a.handle) = {}

\* C14: every line and every marker on the figure is referenced by the
\* 'draw_track' or the 'draw_point' entry of exactly one athlete of the
\* table.
C14_NoOrphanedPrimitives ==
    /\ \A a \in Lines :
           /\ Cardinality(TrackOwners(a.handle)) = 1
           /\ PointOwners(a.handle) = {}
    /\ \A a \in Markers :
           /\ Cardinality(PointOwners(a.handle)) = 1
           /\ TrackOwners(a.handle) = {}

\* add_athlete, called for an athlete already in the table, has drawn the
\* track again and left the segments drawn before on the figure
C14_Witness ==
    /\ op = "add_athlete"
    /\ error = ""
    /\ \E a, b \in Lines :
           /\ a.handle # b.handle
           /\ TrackOwners(a.handle) = {}
           /\ TrackOwners(b.handle) = {arg}

\* the plot coordinates of segment i of the track of athlete k under the
\* bounds of the map as they are now
SegmentNow(k, i) ==
    << degrees_to_graph(self, self.athletes[k].track[i].position_degrees).ret,
       degrees_to_graph(self, self.athletes[k].track[i + 1].position_degrees).ret >>

\* the segments of athlete k are drawn where degrees_to_graph puts them now
TrackCurrent(k) ==
    ( /\ self.athletes[k].draw_track # Absent
      /\ self.athletes[k].draw_track # None ) =>
        \A i \in 1..Len(self.athletes[k].draw_track[2]) :
            \E a \in Lines :
                /\ a.handle = self.athletes[k].draw_track[2][i]
                /\ a.xy = SegmentNow(k, i)

\* C15: after an add_athlete call the drawn segments of every athlete of
\* the table are at the plot coordinates degrees_to_graph yields under the
\* bounds the call has left.
C15_DrawnTracksNeverStale ==
    (op = "add_athlete" /\ error = "") =>
        \A k \in DOMAIN self.athletes : TrackCurrent(k)

\* add_athlete has moved the bounds and left the track of another athlete
\* where it was drawn under the old bounds
C15_Witness ==
    /\ op = "add_athlete"
    /\ error = ""
    /\ TrackCurrent(arg)
    /\ \E k \in DOMAIN self.athletes : k # arg /\ ~TrackCurrent(k)

\* the bounds of the tracks of the athletes added so far
AddedBounds ==
    {get_track_bounds(self.athletes[k].track) : k \in DOMAIN self.athletes}

\* the smallest (north, east, south, west) rectangle containing a non-empty
\* set of rectangles
Hull(rects) ==
    << Max({r[1] : r \in rects}), Max({r[2] : r \in rects}),
       Min({r[3] : r \in rects}), Min({r[4] : r \in rects}) >>

\* C16: gpx_bounds_deg is None until an athlete is added; after the first
\* add_athlete it is the bounds of that track, and after any sequence of
\* add_athlete calls it is the smallest rectangle containing the bounds of
\* every track added so far, whatever the order of the calls.
C16_BoundsAccumulateByUnion ==
    /\ DOMAIN self.athletes = {} => self.gpx_bounds_deg = None
    /\ DOMAIN self.athletes # {} => self.gpx_bounds_deg = Hull(AddedBounds)
    /\ \A k \in DOMAIN self.athletes :
           DOMAIN self.athletes = {k} =>
               self.gpx_bounds_deg = get_track_bounds(self.athletes[k].track)

\* a second track has been added and has widened the bounds of the first
C16_Witness ==
    /\ op = "add_athlete"
    /\ Cardinality(AddedBounds) = 2
    /\ self.gpx_bounds_deg = Hull(AddedBounds)
    /\ self.gpx_bounds_deg \notin AddedBounds

\* the call convert_speed_units was last made with is one the function must
\* reject: a speed that is no number, a unit that is no string, or a unit
\* string that is none of the four recognised ones
BadConversionInput ==
    \/ arg[1].type \notin {"int", "float"}
    \/ arg[2].type # "str"
    \/ arg[2].type = "str" /\ arg[2].text \notin RecognisedUnits

\* C17: a convert_speed_units call with a speed that is no number, a unit
\* that is no string or a unit string other than 'm/s', 'km/h', 'mph' and
\* 's/500m' raises and returns nothing; no call changes the map, the figure,
\* the cache folder or the track.
C17_BadInputRejected ==
    /\ []((op = "convert_speed_units" /\ BadConversionInput) =>
             /\ error \in {"TypeError", "ValueError"}
             /\ ret = None)
    /\ [][op' = "convert_speed_units" =>
             UNCHANGED <<self, canvas, disk, requests, track>>]_vars

\* a float speed has been handed over with a unit string that is not known
C17_Witness ==
    /\ op = "convert_speed_units"
    /\ arg[1].type = "float"
    /\ arg[2].type = "str"
    /\ arg[2].text = "knots"
    /\ error = "ValueError"
    /\ ret = None

\* the indices of the points of the track later than the time asked for
LaterPoints == {i \in 1..Len(track) : track[i].relative_time > arg}

\* C18: when some point of the track is later than t,
\* get_surrounding_points_at_time returns the first such point as `above`
\* and the point before it as `below`; when that first point is the first
\* point of the track, no point of the track is returned as `below`.
C18_BracketSearch ==
    (op = "get_surrounding_points_at_time" /\ LaterPoints # {}) =>
        LET i == Min(LaterPoints)
        IN  /\ ret[2] = <<track[i]>>
            /\ i > 1 => ret[1] = <<track[i - 1]>>
            /\ i = 1 => ret[1] = None

\* the search was asked for a time before the first point of a track of two
\* different points and returned the last point of the track as `below`
C18_Witness ==
    /\ op = "get_surrounding_points_at_time"
    /\ Len(track) = 2
    /\ track[1] # track[2]
    /\ arg < track[1].relative_time
    /\ ret[1] = <<track[2]>>
    /\ ret[2] = <<track[1]>>

\* the tiles between the tile of the south-west corner and the tile of the
\* north-east corner of bounds given as (north, east, south, west)
CoveredTiles(bounds) ==
    LET south_west == deg2num(bounds[3], bounds[4])
        north_east == deg2num(bounds[1], bounds[2])
    IN  {<<x, y>> : x \in south_west[1]..north_east[1],
                    y \in north_east[2]..south_west[2]}

\* C19: after an add_athlete call that returned, every tile between the tile
\* of deg2num(south, west) and the tile of deg2num(north, east) of the
\* (north, east, south, west) track bounds is in the tile dictionary, and the
\* call requested no tile from the server twice.
C19_TileCoverage ==
    (op = "add_athlete" /\ error = "") =>
        /\ CoveredTiles(self.gpx_bounds_deg) \subseteq DOMAIN self.raw_image_dict
        /\ \A i, j \in 1..Len(requests) :
               requests[i][1] = requests[j][1] => i = j

\* an add_athlete call has returned and a tile of the rectangle of the track
\* bounds is not in the tile dictionary
C19_Witness ==
    /\ op = "add_athlete"
    /\ error = ""
    /\ self.gpx_bounds_deg # None
    /\ \E tile \in CoveredTiles(self.gpx_bounds_deg) :
           tile \notin DOMAIN self.raw_image_dict

----------------------------------------------------------------------------
(* Properties of the stats menu *)

\* the place of item k of a dict in a stable sort by descending 'dist': one
\* more than the number of items that are farther, or as far and earlier
PlaceOf(data, k) ==
    1 + Cardinality({j \in 1..Len(data) :
                        \/ greater(data[j].value.dist, data[k].value.dist)
                        \/ /\ ~greater(data[k].value.dist, data[j].value.dist)
                           /\ j < k})

\* the keys of a dict in the order of a stable sort by descending 'dist'
StableDescending(data) ==
    [place \in 1..Len(data) |->
        data[CHOOSE k \in 1..Len(data) : PlaceOf(data, k) = place].key]

\* the display_text call returned and its rows name the athletes of its
\* input in the order of the stable descending sort
RankedAsSorted ==
    /\ error = ""
    /\ ret[1] # None
    /\ [position \in 1..Len(ret[1][1]) |-> ret[1][1][position].name] =
           StableDescending(arg)

\* C20: for every non-empty dict of athletes whose distances are distances
\* the sampler returns, display_text ends without an exception and lists
\* every athlete once, in the order of a stable sort by descending 'dist'.
C20_RankingIsStableSort ==
    (op = "display_text" /\ Len(arg) > 0) => RankedAsSorted

\* display_text was given an athlete whose distance, one the sampler
\* returns, is not above the -1 the selection starts from, and raised
\* KeyError
C20_Witness ==
    /\ op = "display_text"
    /\ Len(arg) > 0
    /\ \E i \in 1..Len(arg) : ~greater(arg[i].value.dist, PyInt(-1))
    /\ error = "KeyError"
    /\ ret[1] = None

\* when every distance of the input is above -1, display_text ranks as the
\* stable descending sort does
RankingAboveSentinel ==
    ( /\ op = "display_text"
      /\ Len(arg) > 0
      /\ \A i \in 1..Len(arg) : greater(arg[i].value.dist, PyInt(-1)) ) =>
        RankedAsSorted

----------------------------------------------------------------------------
(* Properties of the sampler between the first and the last point *)

\* the samplers that look for the points around a time
BracketingSamplers ==
    {"get_surrounding_points_at_time", "get_position_at_time", "get_speed_at_time",
     "get_cadence_at_time", "get_cumulative_dist_at_time"}

\* the time asked for is at or after the first point and before the last
InsideTrack ==
    /\ track[1].relative_time <= arg
    /\ arg < LastTime

\* C21: for a query time from the first point's relative_time up to, not
\* including, the last point's, the points the bracket search selects are a
\* strictly positive time apart (below at or before the time, above after
\* it), and get_position_at_time, get_speed_at_time, get_cadence_at_time and
\* get_cumulative_dist_at_time return without an exception.
C21_NoDivisionByZeroInsideTrack ==
    (op \in BracketingSamplers /\ InsideTrack) =>
        /\ Bracket.below # None
        /\ Bracket.above # None
        /\ Bracket.below[1].relative_time <= arg
        /\ Bracket.above[1].relative_time > arg
        /\ Bracket.above[1].relative_time - Bracket.below[1].relative_time > 0
        /\ error = ""
        /\ ret # None

\* the speed was asked for at the time two points of a three-point track
\* share, before the third, and was returned
C21_Witness ==
    /\ op = "get_speed_at_time"
    /\ Len(track) = 3
    /\ track[1].relative_time = track[2].relative_time
    /\ track[2].relative_time < track[3].relative_time
    /\ arg = track[1].relative_time
    /\ Bracket.below = <<track[2]>>
    /\ Bracket.above = <<track[3]>>
    /\ error = ""
    /\ ret # None

----------------------------------------------------------------------------
(* Properties of add_athlete and remove_athlete as a whole *)

\* C22: an add_athlete call that a failed tile fetch ended leaves the
\* athlete table, gpx_bounds_deg, the raw and the local tile dictionary and
\* the tile bounds as they were before the call.
C22_AddAthleteAllOrNothing ==
    [][ (op' = "add_athlete" /\ error' \in FetchErrors) =>
            /\ self'.athletes = self.athletes
            /\ self'.gpx_bounds_deg = self.gpx_bounds_deg
            /\ self'.raw_image_dict = self.raw_image_dict
            /\ self'.image_dict = self.image_dict
            /\ self'.tile_bounds_plt = self.tile_bounds_plt
            /\ self'.tile_bounds_deg = self.tile_bounds_deg
      ]_vars

\* a first add_athlete call was ended by a failed fetch: the athlete is in
\* the table and its bounds are the track bounds, and there is no tile, no
\* tile bound and no drawn track
C22_Witness ==
    /\ op = "add_athlete"
    /\ error \in FetchErrors
    /\ DOMAIN self.athletes = {arg}
    /\ self.athletes[arg].draw_track = Absent
    /\ self.gpx_bounds_deg = get_track_bounds(self.athletes[arg].track)
    /\ DOMAIN self.raw_image_dict = {}
    /\ self.tile_bounds_deg = None
    /\ canvas.artists = {}


\* a (north, east, south, west) rectangle contains another
Contains(outer, inner) ==
    /\ outer[1] >= inner[1]
    /\ outer[2] >= inner[2]
    /\ outer[3] <= inner[3]
    /\ outer[4] <= inner[4]

\* the handles the entry of an athlete refers to
HandlesOf(entry) ==
    (IF entry.draw_point # Absent /\ entry.draw_point # None
     THEN {entry.draw_point[2]} ELSE {})
    \cup
    (IF entry.draw_track # Absent /\ entry.draw_track # None
     THEN {entry.draw_track[2][i] : i \in 1..Len(entry.draw_track[2])} ELSE {})

\* a remove_athlete step leaves the tiles, the bounds, the entries of the
\* other athletes and the artists their entries refer to as they were
RemoveTouchesOneAthlete ==
    op' = "remove_athlete" =>
        /\ self'.raw_image_dict = self.raw_image_dict
        /\ self'.image_dict = self.image_dict
        /\ self'.tile_bounds_plt = self.tile_bounds_plt
        /\ self'.tile_bounds_deg = self.tile_bounds_deg
        /\ self'.gpx_bounds_deg = self.gpx_bounds_deg
        /\ \A k \in DOMAIN self.athletes \ {arg'} :
               /\ k \in DOMAIN self'.athletes
               /\ self'.athletes[k] = self.athletes[k]
               /\ \A a \in canvas.artists :
                      a.handle \in HandlesOf(self.athletes[k]) => a \in canvas'.artists
        /\ canvas'.artists \subseteq canvas.artists
        /\ canvas'.images = canvas.images

\* a step keeps every tile of the raw tile dictionary, and the track bounds
\* and the tile bounds after it contain those before it
TilesAndBoundsGrow ==
    /\ DOMAIN self.raw_image_dict \subseteq DOMAIN self'.raw_image_dict
    /\ self.gpx_bounds_deg # None =>
           /\ self'.gpx_bounds_deg # None
           /\ Contains(self'.gpx_bounds_deg, self.gpx_bounds_deg)
    /\ self.tile_bounds_deg # None =>
           /\ self'.tile_bounds_deg # None
           /\ Contains(self'.tile_bounds_deg, self.tile_bounds_deg)

\* C23: remove_athlete leaves the raw and the local tile dictionary,
\* tile_bounds_plt, tile_bounds_deg, gpx_bounds_deg and the entry and the
\* drawn primitives of every other athlete unchanged, so over any sequence
\* of calls no tile leaves the tile set and the bounds never shrink.
C23_RemoveTouchesOnlyOneAthlete ==
    [][RemoveTouchesOneAthlete /\ TilesAndBoundsGrow]_vars

\* an athlete was removed while another one is in the table with its track
\* on the figure: the tiles are there and the track bounds still contain
\* more than the tracks of the athletes left
C23_Witness ==
    /\ op = "remove_athlete"
    /\ error = ""
    /\ arg \notin DOMAIN self.athletes
    /\ \E k \in DOMAIN self.athletes :
           /\ HandlesOf(self.athletes[k]) # {}
           /\ \A h \in HandlesOf(self.athletes[k]) : \E a \in canvas.artists : a.handle = h
    /\ DOMAIN self.raw_image_dict # {}
    /\ self.gpx_bounds_deg # Hull(AddedBounds)
    /\ Contains(self.gpx_bounds_deg, Hull(AddedBounds))

----------------------------------------------------------------------------
(* Properties of the sampler's values where they are used *)

\* C24: for every track, every query time and each of the four recognised
\* units, convert_speed_units applied to what get_speed_at_time returned
\* returns a string and raises nothing.
C24_SamplerOutputConvertible ==
    op = "convert_speed_units(get_speed_at_time)" =>
        /\ error = ""
        /\ ret # None
        /\ ret[1].type = "str"

\* the speed asked for after the end of the track came back as the int 0 and
\* convert_speed_units raised TypeError on it
C24_Witness ==
    /\ op = "convert_speed_units(get_speed_at_time)"
    /\ arg[1] > LastTime
    /\ get_speed_at_time(track, arg[1]).ret = <<PyInt(0)>>
    /\ error = "TypeError"
    /\ ret = None

\* the speed between two points at one position came back as 0.0 and the
\* pace in 's/500m' raised ZeroDivisionError on it
ZeroSpeedHasNoPace ==
    /\ op = "convert_speed_units(get_speed_at_time)"
    /\ arg[2] = PyStr("s/500m")
    /\ track[1].relative_time <= arg[1]
    /\ arg[1] < LastTime
    /\ get_speed_at_time(track, arg[1]).ret = <<PyFloat(0, 1)>>
    /\ error = "ZeroDivisionError"


\* a <= b of two Python numbers
at_most(a, b) == ~greater(a, b)

\* what get_cumulative_dist_at_time returned is not negative, and for every
\* later query time the function returns at least as much and at most what
\* get_total_distance returns
MonotoneFromHere ==
    /\ error = ""
    /\ ret # None
    /\ at_most(PyInt(0), ret[1])
    /\ \A t2 \in QueryTimes :
           t2 >= arg =>
               /\ get_cumulative_dist_at_time(track, t2).error = ""
               /\ at_most(ret[1], get_cumulative_dist_at_time(track, t2).ret[1])
               /\ at_most(get_cumulative_dist_at_time(track, t2).ret[1],
                          get_total_distance(track).ret[1])

\* C25: for every track and all query times t1 <= t2, times before the
\* first point included, 0 <= get_cumulative_dist_at_time(track, t1) <=
\* get_cumulative_dist_at_time(track, t2) <= get_total_distance(track).
C25_CumulativeMonotone ==
    op = "get_cumulative_dist_at_time" => MonotoneFromHere

\* the distance asked for before the first point of the track came back
\* negative
C25_Witness ==
    /\ op = "get_cumulative_dist_at_time"
    /\ arg < track[1].relative_time
    /\ error = ""
    /\ greater(PyInt(0), ret[1])

\* from the time of the first point on the distance is not negative, does
\* not fall and does not pass the total
MonotoneFromFirstPoint ==
    (op = "get_cumulative_dist_at_time" /\ arg >= track[1].relative_time) =>
        MonotoneFromHere

====
